---- MODULE Spec2Model ----
(***************************************************************************)
(* Model of buildbot_nix/gitea_projects.py: the Gitea project discovery,   *)
(* project cache and webhook reconciliation of buildbot-nix.               *)
(*                                                                         *)
(* Repositories are named by the integers 1..NumRepos; the order of the    *)
(* integers is the order of their full_name strings.                       *)
(***************************************************************************)
EXTENDS Integers, Sequences, FiniteSets, TLC

\* Number of repositories visible to the token on the remote instance.
NumRepos == 2

\* How often the controller triggers the step in one behaviour.
MaxRuns == 2

Repos == 1..NumRepos

None == "None"

\* A path of the file system: absent, or a file holding a token sequence.
NoFile == [exists |-> FALSE, doc |-> <<>>]
FileOf(doc) == [exists |-> TRUE, doc |-> doc]

\* GiteaConfig.topic: the default required topic, and a topic nobody asks for.
DefaultTopic == "build-with-buildbot"
OtherTopic == "other"

\* The values GiteaConfig.topic (str | None) takes.
TopicConfigs == {None, DefaultTopic}

\* The topic lists a repository can carry.
TopicSets == {{}, {DefaultTopic}, {DefaultTopic, OtherTopic}}

\* Topics the remote reports for repository r (GET .../topics).
RemoteTopics(r) == IF r % 2 = 1 THEN {DefaultTopic} ELSE {OtherTopic}

\* A repository record as kept in `repos` and in the cache file.
Record(r, t) == [full_name |-> r, topics |-> t]

VARIABLES
    admin,        \* remote: repo["permissions"]["admin"] of every repository
    remote,       \* remote: the order in which GET /user/repos lists them
    hooks,        \* remote: the hooks registered on every repository
    topic,        \* GiteaConfig.topic
    file,         \* the project cache file (NoFile when absent)
    tmp,          \* the temporary file of atomic_write_file
    pc,           \* position of the step (run and its background thread)
    cursor,       \* refresh_projects: next item of the repository listing
    repos,        \* refresh_projects / reload_projects: the collected records
    i,            \* reload_projects: index of the hook loop
    sighups,      \* SIGHUPs sent to the own process by this run
    steplog,      \* log streams added to the step by this run
    result,       \* the step result of this run
    runs,         \* how many times the step was triggered
    fileAtStart,  \* history: the cache file when this run started
    requests,     \* history: per-repository requests issued by this run
    topicFailed,  \* history: repositories whose topics lookup failed in this run
    failure,      \* history: the call that made the background thread raise
    writes,       \* history: how often this run replaced the cache file
    rpc,          \* reader: position inside load_projects
    observed,     \* reader: the document read_text() returned
    loaded,       \* reader: what load_projects returned
    cached        \* reader: what are_projects_cached returned

vars == <<admin, remote, hooks, topic, file, tmp, pc, cursor, repos, i, sighups,
          steplog, result, runs, fileAtStart, requests, topicFailed, failure,
          writes, rpc, observed, loaded, cached>>

envVars == <<admin, remote, topic>>
runVars == <<file, tmp, pc, cursor, repos, i, sighups, steplog, result, runs,
             fileAtStart, requests, topicFailed, failure, writes, hooks>>
readerVars == <<rpc, observed, loaded, cached>>

----------------------------------------------------------------------------
\* Sequences and sorting

Range(s) == {s[k] : k \in DOMAIN s}

RECURSIVE Perms(_)
Perms(S) ==
    IF S = {} THEN {<<>>}
    ELSE UNION {{<<x>> \o p : p \in Perms(S \ {x})} : x \in S}

\* All sequences of distinct elements of S.
DistinctSeqs(S) == UNION {Perms(T) : T \in SUBSET S}

\* Insert record x into the sorted sequence s, after the records that do not
\* sort after it (sorted() is stable).
RECURSIVE InsertByName(_, _)
InsertByName(x, s) ==
    IF s = <<>> THEN <<x>>
    ELSE IF Head(s).full_name <= x.full_name
         THEN <<Head(s)>> \o InsertByName(x, Tail(s))
         ELSE <<x>> \o s

RECURSIVE SortFrom(_, _)
SortFrom(s, acc) ==
    IF s = <<>> THEN acc ELSE SortFrom(Tail(s), InsertByName(Head(s), acc))

\* sorted(records, key=lambda x: x["full_name"])
SortByName(s) == SortFrom(s, <<>>)

IsSortedByName(s) ==
    \A a, b \in DOMAIN s : a < b => s[a].full_name <= s[b].full_name

----------------------------------------------------------------------------
\* The JSON document of the cache file, as a sequence of tokens

OpenTok == [tok |-> "[", full_name |-> 0, topics |-> {}]
CloseTok == [tok |-> "]", full_name |-> 0, topics |-> {}]
RecTok(rec) == [tok |-> "rec", full_name |-> rec.full_name, topics |-> rec.topics]

\* json.dumps(repos)
Dumps(recs) ==
    <<OpenTok>> \o [k \in 1..Len(recs) |-> RecTok(recs[k])] \o <<CloseTok>>

IsComplete(doc) ==
    /\ Len(doc) >= 2
    /\ doc[1] = OpenTok
    /\ doc[Len(doc)] = CloseTok
    /\ \A k \in 2..(Len(doc) - 1) : doc[k].tok = "rec"

\* json.loads(text) of a complete document: its records. (An incomplete
\* document makes json.loads raise; see load_projects_read.)
Loads(doc) ==
    [k \in 1..(Len(doc) - 2) |-> Record(doc[k + 1].full_name, doc[k + 1].topics)]

----------------------------------------------------------------------------
\* The remote hooks

\* webhook_url + "change_hook/gitea", and the URL of somebody else's hook
DesiredUrl == "base/change_hook/gitea"
ForeignUrl == "elsewhere/hook"

\* self.webhook_secret, and a secret of an earlier configuration
WebhookSecret == "secret"
StaleSecret == "stale"

Hook(u, s) == [url |-> u, secret |-> s, events |-> {"push", "pull_request"}]

\* The hook lists a repository can start with.
InitHookLists ==
    {<<>>, <<Hook(ForeignUrl, StaleSecret)>>, <<Hook(DesiredUrl, StaleSecret)>>}

\* Mutant of HookExists: the existing hook must match in URL and secret.
HookExists_SameSecret(hs) ==
    \E k \in DOMAIN hs : hs[k].url = DesiredUrl /\ hs[k].secret = WebhookSecret

\* Mutant of HookExists: any existing hook counts, whatever its URL.
HookExists_AnyHook(hs) == hs # <<>>

\* create_project_hook: the loop over the existing hooks
HookExists(hs) == \E k \in DOMAIN hs : hs[k].url = DesiredUrl

\* create_project_hook: the hook the POST request creates
NewHook == Hook(DesiredUrl, WebhookSecret)

----------------------------------------------------------------------------
\* ReloadGiteaProjects.reload_projects: the order of its three statements

\* Mutant of ReloadOrder: the cache is written before the hooks are reconciled.
ReloadOrder_WriteFirst == <<"refresh", "write", "hooks">>

ReloadOrder == <<"refresh", "hooks", "write">>

PhaseAfter(p) ==
    LET k == CHOOSE n \in DOMAIN ReloadOrder : ReloadOrder[n] = p
    IN IF k < Len(ReloadOrder) THEN ReloadOrder[k + 1] ELSE "returned"

Running == {"refresh", "hooks", "post", "write", "chunks"}

Request(kind, r) == <<kind, r>>

----------------------------------------------------------------------------
\* The states the step starts from

\* The snapshot an earlier process left behind: every repository, sorted.
OldSnapshot == [k \in 1..NumRepos |-> Record(k, RemoteTopics(k))]

InitFiles == {NoFile, FileOf(Dumps(OldSnapshot))}

InitRun ==
    /\ tmp = NoFile
    /\ pc = "idle"
    /\ cursor = 1
    /\ repos = <<>>
    /\ i = 1
    /\ sighups = 0
    /\ steplog = <<>>
    /\ result = None
    /\ runs = 0
    /\ fileAtStart = file
    /\ requests = <<>>
    /\ topicFailed = {}
    /\ failure = None
    /\ writes = 0

InitReader ==
    /\ rpc = "idle"
    /\ observed = NoFile
    /\ loaded = [status |-> "none", projects |-> <<>>]
    /\ cached = "unknown"

Init ==
    /\ admin \in [Repos -> BOOLEAN]
    /\ remote \in Perms(Repos)
    /\ hooks \in [Repos -> InitHookLists]
    /\ \A r \in Repos : ~admin[r] => hooks[r] = <<>>
    /\ topic = DefaultTopic
    /\ file \in InitFiles
    /\ InitRun
    /\ InitReader

----------------------------------------------------------------------------
\* ReloadGiteaProjects.run

\* run: deferToThread(self.reload_projects), with the step's fields as
\* __init__ and run set them
BeginRun ==
    /\ runs' = runs + 1
    /\ pc' = ReloadOrder[1]
    /\ tmp' = NoFile
    /\ cursor' = 1
    /\ repos' = <<>>
    /\ i' = 1
    /\ sighups' = 0
    /\ steplog' = <<>>
    /\ result' = None
    /\ fileAtStart' = file
    /\ requests' = <<>>
    /\ topicFailed' = {}
    /\ failure' = None
    /\ writes' = 0
    /\ UNCHANGED <<file, hooks>>
    /\ UNCHANGED envVars
    /\ UNCHANGED readerVars

\* the controller triggers the step for the first time
run_start ==
    /\ pc = "idle"
    /\ BeginRun

\* the controller triggers the step again, after a run ended or died
run_retrigger ==
    /\ pc \in {"done", "crashed"}
    /\ runs < MaxRuns
    /\ BeginRun

\* Mutant of CallbackResult: the errback gives SUCCESS as well.
CallbackResult_AlwaysSuccess(p) == "SUCCESS"

\* run: the result the callbacks give the deferred
CallbackResult(p) == IF p = "returned" THEN "SUCCESS" ELSE "FAILURE"

\* Mutant of SighupsSent: the signal is sent whatever the result.
SighupsSent_Always(res) == 1

\* run: os.kill(os.getpid(), signal.SIGHUP) on success only
SighupsSent(res) == IF res = "SUCCESS" THEN 1 ELSE 0

\* run: the stream added by addLog("log"), with what addStderr gives it: the
\* traceback error_cb collected, named here by the call that raised
LogStream == [name |-> "log", stderr |-> failure]

\* Mutant of LogsAdded: the log is added whatever the result.
LogsAdded_Always(res) == <<LogStream>>

\* run: addLog("log") and addStderr on failure only
LogsAdded(res) == IF res = "SUCCESS" THEN <<>> ELSE <<LogStream>>

\* run: the deferred fired, the step finishes
run_finish ==
    /\ pc \in {"returned", "raised"}
    /\ LET res == CallbackResult(pc)
       IN /\ sighups' = sighups + SighupsSent(res)
          /\ steplog' = steplog \o LogsAdded(res)
          /\ result' = res
    /\ pc' = "done"
    /\ UNCHANGED <<file, tmp, cursor, repos, i, runs, fileAtStart, requests,
                   topicFailed, failure, writes, hooks>>
    /\ UNCHANGED envVars
    /\ UNCHANGED readerVars

----------------------------------------------------------------------------
\* refresh_projects

\* Mutant of IsSkipped: the permission test is dropped.
IsSkipped_Never(r) == FALSE

\* refresh_projects: `if not repo["permissions"]["admin"]`
IsSkipped(r) == ~admin[r]

refreshFrame ==
    /\ UNCHANGED <<file, tmp, i, sighups, steplog, result, runs, fileAtStart,
                   writes, hooks>>
    /\ UNCHANGED envVars
    /\ UNCHANGED readerVars

\* the listing yields a repository without admin rights: log and go on
refresh_projects_skip ==
    /\ pc = "refresh"
    /\ cursor <= Len(remote)
    /\ IsSkipped(remote[cursor])
    /\ cursor' = cursor + 1
    /\ UNCHANGED <<pc, repos, requests, topicFailed, failure>>
    /\ refreshFrame

\* the topics request answers: splice the topics in and collect the record
refresh_projects_topics_ok ==
    /\ pc = "refresh"
    /\ cursor <= Len(remote)
    /\ ~IsSkipped(remote[cursor])
    /\ requests' = Append(requests, Request("topics", remote[cursor]))
    /\ repos' = Append(repos, Record(remote[cursor], RemoteTopics(remote[cursor])))
    /\ cursor' = cursor + 1
    /\ UNCHANGED <<pc, topicFailed, failure>>
    /\ refreshFrame

\* the topics request raises an OSError: `except OSError: pass`
refresh_projects_topics_oserror ==
    /\ pc = "refresh"
    /\ cursor <= Len(remote)
    /\ ~IsSkipped(remote[cursor])
    /\ requests' = Append(requests, Request("topics", remote[cursor]))
    /\ topicFailed' = topicFailed \cup {remote[cursor]}
    /\ cursor' = cursor + 1
    /\ UNCHANGED <<pc, repos, failure>>
    /\ refreshFrame

\* the topics lookup raises something that is no OSError (the answer has no
\* "topics" key, its body is no JSON, ...): nothing catches it
refresh_projects_topics_raise ==
    /\ pc = "refresh"
    /\ cursor <= Len(remote)
    /\ ~IsSkipped(remote[cursor])
    /\ requests' = Append(requests, Request("topics", remote[cursor]))
    /\ topicFailed' = topicFailed \cup {remote[cursor]}
    /\ pc' = "raised"
    /\ failure' = "topics"
    /\ UNCHANGED <<cursor, repos>>
    /\ refreshFrame

\* Mutant of refresh_projects_page_error: the failure of the page is caught and
\* the records collected so far are returned.
refresh_projects_page_error_Caught ==
    /\ pc = "refresh"
    /\ cursor = 1 \/ cursor <= Len(remote)
    /\ pc' = PhaseAfter("refresh")
    /\ failure' = "page"
    /\ UNCHANGED <<cursor, repos, requests, topicFailed>>
    /\ refreshFrame

\* a page request of the listing fails (before the first item or between two)
refresh_projects_page_error ==
    /\ pc = "refresh"
    /\ cursor = 1 \/ cursor <= Len(remote)
    /\ pc' = "raised"
    /\ failure' = "page"
    /\ UNCHANGED <<cursor, repos, requests, topicFailed>>
    /\ refreshFrame

\* the listing is exhausted: `return repos`
refresh_projects_return ==
    /\ pc = "refresh"
    /\ cursor > Len(remote)
    /\ pc' = PhaseAfter("refresh")
    /\ UNCHANGED <<cursor, repos, requests, topicFailed, failure>>
    /\ refreshFrame

----------------------------------------------------------------------------
\* create_project_hook, called by the loop of reload_projects

hookFrame ==
    /\ UNCHANGED <<file, tmp, cursor, repos, sighups, steplog, result, runs,
                   fileAtStart, topicFailed, writes>>
    /\ UNCHANGED envVars
    /\ UNCHANGED readerVars

\* the hook list request fails
create_project_hook_list_error ==
    /\ pc = "hooks"
    /\ i <= Len(repos)
    /\ requests' = Append(requests, Request("hooks", repos[i].full_name))
    /\ pc' = "raised"
    /\ failure' = "hooks"
    /\ UNCHANGED <<i, hooks>>
    /\ hookFrame

\* a hook with the URL exists: `return`
create_project_hook_exists ==
    /\ pc = "hooks"
    /\ i <= Len(repos)
    /\ HookExists(hooks[repos[i].full_name])
    /\ requests' = Append(requests, Request("hooks", repos[i].full_name))
    /\ i' = i + 1
    /\ UNCHANGED <<pc, hooks, failure>>
    /\ hookFrame

\* no hook has the URL: go on to the POST
create_project_hook_missing ==
    /\ pc = "hooks"
    /\ i <= Len(repos)
    /\ ~HookExists(hooks[repos[i].full_name])
    /\ requests' = Append(requests, Request("hooks", repos[i].full_name))
    /\ pc' = "post"
    /\ UNCHANGED <<i, hooks, failure>>
    /\ hookFrame

\* Mutant of create_project_hook_post_ok: the new hook replaces the hooks the
\* repository had.
create_project_hook_post_ok_Replaces ==
    /\ pc = "post"
    /\ requests' = Append(requests, Request("post", repos[i].full_name))
    /\ hooks' = [hooks EXCEPT ![repos[i].full_name] = <<NewHook>>]
    /\ i' = i + 1
    /\ pc' = "hooks"
    /\ UNCHANGED failure
    /\ hookFrame

\* the POST creates the hook
create_project_hook_post_ok ==
    /\ pc = "post"
    /\ requests' = Append(requests, Request("post", repos[i].full_name))
    /\ hooks' = [hooks EXCEPT ![repos[i].full_name] = Append(@, NewHook)]
    /\ i' = i + 1
    /\ pc' = "hooks"
    /\ UNCHANGED failure
    /\ hookFrame

\* Mutant of create_project_hook_post_error: the failure of the POST is caught
\* and the loop goes on with the next repository.
create_project_hook_post_error_Caught ==
    /\ pc = "post"
    /\ requests' = Append(requests, Request("post", repos[i].full_name))
    /\ i' = i + 1
    /\ pc' = "hooks"
    /\ UNCHANGED <<hooks, failure>>
    /\ hookFrame

\* Mutant of create_project_hook_post_error: the failed POST is sent again.
create_project_hook_post_error_Retry ==
    /\ pc = "post"
    /\ failure = None
    /\ requests' = Append(requests, Request("post", repos[i].full_name))
    /\ failure' = "post"
    /\ UNCHANGED <<pc, i, hooks>>
    /\ hookFrame

\* the POST fails
create_project_hook_post_error ==
    /\ pc = "post"
    /\ requests' = Append(requests, Request("post", repos[i].full_name))
    /\ pc' = "raised"
    /\ failure' = "post"
    /\ UNCHANGED <<i, hooks>>
    /\ hookFrame

\* reload_projects: the loop over repos is over
reload_projects_hooks_done ==
    /\ pc = "hooks"
    /\ i > Len(repos)
    /\ pc' = PhaseAfter("hooks")
    /\ UNCHANGED <<i, hooks, requests, failure>>
    /\ hookFrame

----------------------------------------------------------------------------
\* atomic_write_file(self.project_cache_file, json.dumps(repos))

\* Mutant of WriteData: the records of the previous cache that this run did
\* not collect are kept.
WriteData_KeepsOld ==
    LET old == IF fileAtStart.exists THEN Loads(fileAtStart.doc) ELSE <<>>
        got == {repos[k].full_name : k \in DOMAIN repos}
    IN Dumps(repos \o SelectSeq(old, LAMBDA rec : rec.full_name \notin got))

\* reload_projects: the text handed to atomic_write_file
WriteData == Dumps(repos)

\* Mutant of CacheWriter: Path.write_text, which writes the target in place.
CacheWriter_InPlace == "write_text"

\* reload_projects: the function that writes the cache: atomic_write_file,
\* which leaves the target alone until the rename.
CacheWriter == "atomic_write_file"

writeFrame ==
    /\ UNCHANGED <<cursor, repos, i, sighups, steplog, result, runs, fileAtStart,
                   requests, topicFailed, hooks>>
    /\ UNCHANGED envVars
    /\ UNCHANGED readerVars

\* a temporary file is created in the directory of the target
atomic_write_file_open ==
    /\ pc = "write"
    /\ tmp' = FileOf(<<>>)
    /\ pc' = "chunks"
    /\ UNCHANGED <<file, failure, writes>>
    /\ writeFrame

\* the next part of the text reaches the temporary file
atomic_write_file_write ==
    /\ pc = "chunks"
    /\ Len(tmp.doc) < Len(WriteData)
    /\ tmp' = FileOf(Append(tmp.doc, WriteData[Len(tmp.doc) + 1]))
    /\ file' = IF CacheWriter = "atomic_write_file" THEN file ELSE tmp'
    /\ writes' = IF CacheWriter = "atomic_write_file" THEN writes ELSE writes + 1
    /\ UNCHANGED <<pc, failure>>
    /\ writeFrame

\* the whole text is flushed: rename the temporary file over the target
atomic_write_file_rename ==
    /\ pc = "chunks"
    /\ tmp.doc = WriteData
    /\ file' = tmp
    /\ writes' = writes + 1
    /\ tmp' = NoFile
    /\ pc' = PhaseAfter("write")
    /\ UNCHANGED failure
    /\ writeFrame

\* creating, writing, flushing or renaming fails: the temporary file is removed
atomic_write_file_error ==
    /\ pc \in {"write", "chunks"}
    /\ tmp' = NoFile
    /\ pc' = "raised"
    /\ failure' = "write"
    /\ UNCHANGED <<file, writes>>
    /\ writeFrame

\* the process dies in the middle of the run; what is on disk stays
crash ==
    /\ pc \in Running
    /\ pc' = "crashed"
    /\ UNCHANGED <<file, tmp, cursor, repos, i, sighups, steplog, result, runs,
                   fileAtStart, requests, topicFailed, failure, writes, hooks>>
    /\ UNCHANGED envVars
    /\ UNCHANGED readerVars

----------------------------------------------------------------------------
\* GiteaBackend.load_projects, called by the controller when it (re)configures

\* load_projects: the filter over the sorted records
TopicFilter(t, rec) == t # None /\ t \in rec.topics

\* Mutant of LoadProjects: the records are filtered but not sorted.
LoadProjects_Unsorted(doc, t) ==
    SelectSeq(Loads(doc), LAMBDA rec : TopicFilter(t, rec))

\* load_projects: what it returns for a complete document
LoadProjects(doc, t) ==
    SelectSeq(SortByName(Loads(doc)), LAMBDA rec : TopicFilter(t, rec))

Loaded(status, projects) == [status |-> status, projects |-> projects]

\* Mutant of load_projects_exists: a missing cache file is created empty.
load_projects_exists_Creates ==
    /\ rpc = "idle"
    /\ IF file.exists
       THEN /\ rpc' = "read"
            /\ UNCHANGED <<observed, loaded, file>>
       ELSE /\ loaded' = Loaded("ok", <<>>)
            /\ observed' = NoFile
            /\ file' = FileOf(Dumps(<<>>))
            /\ UNCHANGED rpc
    /\ UNCHANGED cached
    /\ UNCHANGED <<tmp, pc, cursor, repos, i, sighups, steplog, result, runs,
                   fileAtStart, requests, topicFailed, failure, writes, hooks>>
    /\ UNCHANGED envVars

\* `if not self.config.project_cache_file.exists(): return []`
load_projects_exists ==
    /\ rpc = "idle"
    /\ IF file.exists
       THEN /\ rpc' = "read"
            /\ UNCHANGED <<observed, loaded>>
       ELSE /\ loaded' = Loaded("ok", <<>>)
            /\ observed' = NoFile
            /\ UNCHANGED rpc
    /\ UNCHANGED cached
    /\ UNCHANGED runVars
    /\ UNCHANGED envVars

\* read_text(), json.loads, sorted, filter
load_projects_read ==
    /\ rpc = "read"
    /\ observed' = file
    /\ loaded' = IF ~file.exists THEN Loaded("FileNotFoundError", <<>>)
                 ELSE IF ~IsComplete(file.doc) THEN Loaded("JSONDecodeError", <<>>)
                 ELSE Loaded("ok", LoadProjects(file.doc, topic))
    /\ rpc' = "idle"
    /\ UNCHANGED cached
    /\ UNCHANGED runVars
    /\ UNCHANGED envVars

\* GiteaBackend.are_projects_cached: `return self.config.project_cache_file.exists()`
are_projects_cached ==
    /\ cached' = IF file.exists THEN "True" ELSE "False"
    /\ UNCHANGED <<rpc, observed, loaded>>
    /\ UNCHANGED runVars
    /\ UNCHANGED envVars

----------------------------------------------------------------------------
\* The specifications

\* The step and its background thread
RunNext ==
    \/ run_start
    \/ run_finish
    \/ refresh_projects_skip
    \/ refresh_projects_topics_ok
    \/ refresh_projects_topics_oserror
    \/ refresh_projects_topics_raise
    \/ refresh_projects_page_error
    \/ refresh_projects_return
    \/ create_project_hook_list_error
    \/ create_project_hook_exists
    \/ create_project_hook_missing
    \/ create_project_hook_post_ok
    \/ create_project_hook_post_error
    \/ reload_projects_hooks_done
    \/ atomic_write_file_open
    \/ atomic_write_file_write
    \/ atomic_write_file_rename
    \/ atomic_write_file_error
    \/ crash

\* The controller reading the cache
ReaderNext ==
    \/ load_projects_exists
    \/ load_projects_read
    \/ are_projects_cached

\* The step, triggered up to MaxRuns times
Next == RunNext \/ run_retrigger

Spec == Init /\ [][Next]_vars

\* One run of the step, with the controller reading the cache at any moment
NextReaders == RunNext \/ ReaderNext

SpecReaders == Init /\ [][NextReaders]_vars

\* What the background thread and the callbacks of the deferred do once the
\* step is triggered
StepNext ==
    \/ run_finish
    \/ refresh_projects_skip
    \/ refresh_projects_topics_ok
    \/ refresh_projects_topics_oserror
    \/ refresh_projects_topics_raise
    \/ refresh_projects_page_error
    \/ refresh_projects_return
    \/ create_project_hook_list_error
    \/ create_project_hook_exists
    \/ create_project_hook_missing
    \/ create_project_hook_post_ok
    \/ create_project_hook_post_error
    \/ reload_projects_hooks_done
    \/ atomic_write_file_open
    \/ atomic_write_file_write
    \/ atomic_write_file_rename
    \/ atomic_write_file_error

\* One run of the step in a process that stays alive
NextLive == run_start \/ StepNext

\* Every request and every write returns or raises, the thread pool runs
\* reload_projects and the reactor fires the callbacks: a step that can be
\* taken is taken.
SpecLive == Init /\ [][NextLive]_vars /\ WF_vars(StepNext)

\* load_projects on any cache file and any configured topic
SnapshotsOf(S) ==
    UNION {{[k \in 1..Len(p) |-> Record(p[k], f[p[k]])] : f \in [S -> TopicSets]}
           : p \in DistinctSeqs(S)}

InitLoad ==
    /\ admin = [r \in Repos |-> TRUE]
    /\ remote = [k \in 1..NumRepos |-> k]
    /\ hooks = [r \in Repos |-> <<>>]
    /\ topic \in TopicConfigs
    /\ file \in {NoFile} \cup {FileOf(Dumps(recs)) : recs \in SnapshotsOf(Repos)}
    /\ InitRun
    /\ InitReader

NextLoad == ReaderNext

SpecLoad == InitLoad /\ [][NextLoad]_vars

----------------------------------------------------------------------------
\* Properties

RequestsOf(kind) == {q[2] : q \in {x \in Range(requests) : x[1] = kind}}

RecordsOf(f) == Loads(f.doc)

NamesOf(recs) == {recs[k].full_name : k \in DOMAIN recs}

\* the enumeration of this run returned its list
RefreshReturned == cursor > Len(remote) /\ failure \notin {"page", "topics"}

\* C1: a run that ends Failed, whatever failed, leaves the cache file as it
\* was when the run started (absent if it was absent).
C1_FailedRunKeepsCache == result = "FAILURE" => file = fileAtStart

\* C1 witness: a run failed in the final write, with a cache that differs from
\* what the run was about to write.
C1_Witness ==
    /\ result = "FAILURE"
    /\ failure = "write"
    /\ fileAtStart.exists
    /\ fileAtStart.doc # WriteData
    /\ file = fileAtStart

\* C2: a run that ends Succeeded has sent SIGHUP exactly once, a run that ends
\* Failed has sent none.
C2_SighupOncePerSuccess ==
    /\ result = "SUCCESS" => sighups = 1
    /\ result = "FAILURE" => sighups = 0

\* C2 witness: a re-triggered run ended Succeeded and sent its one signal.
C2_Witness == result = "SUCCESS" /\ sighups = 1 /\ runs = MaxRuns

\* C3: whatever the interleaving of one run (a crash in the middle of the
\* write included) with the controller's reads, every read of the cache file
\* gets the whole snapshot of before the run or the whole new one, and the
\* file on disk is a whole document at every moment.
C3_ReadersSeeCompleteSnapshot ==
    /\ file.exists => IsComplete(file.doc)
    /\ loaded.status # "none" =>
        /\ loaded.status = "ok"
        /\ observed.exists => IsComplete(observed.doc)
        /\ observed \in {fileAtStart, FileOf(Dumps(repos))}
        /\ observed # fileAtStart => observed = file

\* C3 witness: the process died with the temporary file half written, and a
\* read returned the previous snapshot.
C3_Witness ==
    /\ pc = "crashed"
    /\ tmp.exists
    /\ Len(tmp.doc) >= 1
    /\ ~IsComplete(tmp.doc)
    /\ loaded.status = "ok"
    /\ observed.exists
    /\ observed = fileAtStart

\* C4: a failing hook lookup or hook creation for one repository is contained:
\* the loop still reaches every collected repository and goes on to the write.
C4_HookFailureContained ==
    (pc = "done" /\ RefreshReturned) =>
        /\ i > Len(repos)
        /\ NamesOf(repos) \subseteq RequestsOf("hooks")

\* the records refresh_projects returns if exactly the repositories of
\* topicFailed are skipped
EligibleNames == SelectSeq(remote, LAMBDA r : admin[r] /\ r \notin topicFailed)

EligibleRecords ==
    [k \in 1..Len(EligibleNames) |->
        Record(EligibleNames[k], RemoteTopics(EligibleNames[k]))]

\* C5: when topic lookups fail and nothing else does, exactly the repositories
\* whose lookup failed are skipped: the step succeeds and the snapshot holds
\* every other repository the token administers.
C5_TopicFailureSkipsOnly ==
    (pc = "done" /\ topicFailed # {} /\ failure \in {None, "topics"}) =>
        /\ result = "SUCCESS"
        /\ file = FileOf(Dumps(EligibleRecords))

\* C6: a repository without admin permission is never collected by
\* refresh_projects, never written to the cache by a run, and no topics, hook
\* list or hook creation request is issued for it.
C6_NoAdminNoTrace ==
    /\ \A k \in DOMAIN repos : admin[repos[k].full_name]
    /\ \A q \in Range(requests) : admin[q[2]]
    /\ file # fileAtStart => \A n \in NamesOf(RecordsOf(file)) : admin[n]

\* C6 witness: a run succeeded and wrote a new snapshot while the listing held
\* a repository without admin permission.
C6_Witness ==
    /\ \E r \in Repos : ~admin[r]
    /\ result = "SUCCESS"
    /\ Len(repos) >= 1
    /\ file # fileAtStart

\* how many hooks of a list call back to the controller
UrlCount(hs) == Cardinality({k \in DOMAIN hs : hs[k].url = DesiredUrl})

\* the step issued a hook creation request for r in this step
PostIssued(r) ==
    /\ Len(requests') = Len(requests) + 1
    /\ requests'[Len(requests')] = Request("post", r)

\* C7: over the successive calls of create_project_hook for a repository, of
\* one run or of re-triggered ones, at most one creation succeeds: once a hook
\* with the callback URL exists, no call issues a creation request or changes
\* the hooks, and no repository ever has two hooks with the URL.
C7_HookCreatedAtMostOnce ==
    [][\A r \in Repos :
        /\ UrlCount(hooks[r]) >= 1 => (hooks'[r] = hooks[r] /\ ~PostIssued(r))
        /\ UrlCount(hooks'[r]) <= 1]_vars

\* C7 witness: a re-triggered run looked up the hooks of a repository whose
\* hook an earlier run had created, and issued no creation request for it.
C7_Witness ==
    /\ runs = 2
    /\ \E r \in Repos :
        /\ NewHook \in Range(hooks[r])
        /\ r \in RequestsOf("hooks")
        /\ r \notin RequestsOf("post")

\* C8: the records of every cache file the step writes are in ascending order
\* of full_name, whatever the order of the remote listing.
C8_SnapshotSorted == file.exists => IsSortedByName(RecordsOf(file))

\* the records of the cache file that carry the configured topic
Tagged == {rec \in Range(RecordsOf(file)) : topic \in rec.topics}

\* seq holds exactly the records of S, each once, in ascending order of full_name
IsSortedListOf(seq, S) ==
    /\ Range(seq) = S
    /\ Len(seq) = Cardinality(S)
    /\ IsSortedByName(seq)

\* C9: with a required topic configured, load_projects on an existing cache
\* file returns exactly the records that carry the topic, each once, in
\* ascending order of full_name, whatever their order in the file.
C9_LoadFiltersAndSorts ==
    (loaded.status = "ok" /\ file.exists /\ topic # None) =>
        IsSortedListOf(loaded.projects, Tagged)

\* C9 witness: a file that is not sorted and holds a record without the topic
\* was loaded, and a project came back.
C9_Witness ==
    /\ loaded.status = "ok"
    /\ file.exists
    /\ topic # None
    /\ ~IsSortedByName(RecordsOf(file))
    /\ Len(loaded.projects) >= 1
    /\ Len(loaded.projects) < Len(RecordsOf(file))

\* C10: with no required topic configured (None), load_projects returns every
\* record of the cache file, in ascending order of full_name.
C10_NoTopicLoadsAll ==
    (loaded.status = "ok" /\ file.exists /\ topic = None) =>
        IsSortedListOf(loaded.projects, Range(RecordsOf(file)))

\* the records refresh_projects owes: every listed repository with admin
\* permission whose topics lookup answered
OwedRecords ==
    {Record(r, RemoteTopics(r)) :
        r \in {x \in Range(remote) : admin[x] /\ x \notin topicFailed}}

\* C11: a run that ends Succeeded has replaced the snapshot wholesale: the
\* cache file holds exactly the records this run's refresh_projects returned,
\* whatever the previous snapshot held.
C11_SnapshotReplacedWholesale ==
    result = "SUCCESS" =>
        /\ file.exists
        /\ IsComplete(file.doc)
        /\ Range(RecordsOf(file)) = OwedRecords
        /\ Len(RecordsOf(file)) = Cardinality(OwedRecords)

\* C11 witness: a run succeeded and a repository of the previous snapshot is
\* not in the new one.
C11_Witness ==
    /\ result = "SUCCESS"
    /\ fileAtStart.exists
    /\ \E rec \in Range(RecordsOf(fileAtStart)) : rec \notin Range(RecordsOf(file))

\* C12: the log stream `log` is written if and only if the run fails: a run
\* whose background thread raised ends with result failure and one stream
\* `log` holding the failure detail; a run whose thread returned ends with
\* result success and no stream; no stream exists before the run ends.
C12_LogIffFailed ==
    /\ pc = "done" =>
        /\ failure # None =>
            (result = "FAILURE" /\ steplog = <<[name |-> "log", stderr |-> failure]>>)
        /\ failure = None => (result = "SUCCESS" /\ steplog = <<>>)
    /\ pc # "done" => steplog = <<>>

\* C12 witness: a run failed in the hook lookup and its log holds that failure.
C12_Witness ==
    /\ result = "FAILURE"
    /\ Len(steplog) = 1
    /\ steplog[1].name = "log"
    /\ steplog[1].stderr = "hooks"

\* a step of load_projects or are_projects_cached
ReaderStep ==
    rpc' # rpc \/ observed' # observed \/ loaded' # loaded \/ cached' # cached

\* C13: load_projects returns the empty list when the cache file does not
\* exist, and no step of load_projects or are_projects_cached creates, changes
\* or removes the cache file.
C13_ReadersLeaveCacheAlone ==
    [][ReaderStep =>
        /\ file' = file
        /\ tmp' = tmp
        /\ (~file.exists /\ loaded' # loaded) => loaded' = Loaded("ok", <<>>)]_vars

\* C13 witness: with no cache file, load_projects returned the empty list and
\* are_projects_cached returned False; the file is still absent.
C13_Witness ==
    /\ ~file.exists
    /\ loaded = Loaded("ok", <<>>)
    /\ cached = "False"

\* C14: in one run the cache file is written at most once, and only after the
\* enumeration returned and the hook of every enumerated repository was
\* reconciled; a run that succeeds has written it exactly once.
C14_WriteOnceAfterHooks ==
    /\ writes <= 1
    /\ (pc \in {"write", "chunks"} \/ tmp.exists \/ writes >= 1) =>
        /\ cursor > Len(remote)
        /\ i > Len(repos)
        /\ NamesOf(repos) \subseteq RequestsOf("hooks")
        /\ failure \in {None, "write"}
    /\ result = "SUCCESS" => writes = 1

\* C14 witness: a run that enumerated every repository and created a hook has
\* succeeded, having written once.
C14_Witness ==
    /\ result = "SUCCESS"
    /\ writes = 1
    /\ Len(repos) = NumRepos
    /\ RequestsOf("post") # {}

\* the terminal states of a run
Terminal == pc = "done" /\ result \in {"SUCCESS", "FAILURE"}

\* C15: a triggered run enters the enumerate, reconcile, write sequence once,
\* and when every request and the write return or fail it ends Succeeded or
\* Failed; after a failure the run sends no request and writes nothing more,
\* and a result once given does not change within the run.
C15_RunEndsOnceNoRetry ==
    /\ [](pc \in Running => <>Terminal)
    /\ [][/\ (pc' = ReloadOrder[1] /\ pc # ReloadOrder[1]) => runs' = runs + 1
          /\ runs' = runs =>
              /\ failure # None =>
                  /\ failure' = failure
                  /\ requests' = requests
                  /\ writes' = writes
                  /\ file' = file
                  /\ pc' \in {"raised", "done"}
              /\ result # None => result' = result
              /\ pc = "done" => pc' = "done"]_vars

\* C15 witness: a run ended Failed on a hook list request that failed after
\* other requests of the run had answered.
C15_Witness ==
    /\ Terminal
    /\ result = "FAILURE"
    /\ failure = "hooks"
    /\ Len(requests) >= 3

\* C16: create_project_hook sends the POST exactly when the hook list it was
\* given has no hook with the callback URL; a hook with that URL and another
\* secret suppresses the POST, and no step changes it.
C16_PostIffNoHookWithUrl ==
    [][\A r \in Repos :
        /\ (requests' = Append(requests, Request("hooks", r)) /\ failure' = None) =>
            /\ (pc' = "post") <=> (UrlCount(hooks[r]) = 0)
            /\ hooks' = hooks
        /\ requests' = Append(requests, Request("post", r)) =>
            /\ pc = "post"
            /\ UrlCount(hooks[r]) = 0
            /\ Request("hooks", r) = requests[Len(requests)]
        /\ UrlCount(hooks[r]) >= 1 => hooks'[r] = hooks[r]]_vars

\* C16 witness: the run listed the hooks of a repository that has a hook with
\* the callback URL and a stale secret, sent no POST for it, and the hook is
\* as it was; for another repository, with a foreign hook only, it sent one.
C16_Witness ==
    \E r, q \in Repos :
        /\ hooks[r] = <<Hook(DesiredUrl, StaleSecret)>>
        /\ r \in RequestsOf("hooks")
        /\ r \notin RequestsOf("post")
        /\ hooks[q] = <<Hook(ForeignUrl, StaleSecret), NewHook>>
        /\ q \in RequestsOf("post")
        /\ pc = "done"

\* C17: when a page request of the repository listing fails, the run ends
\* Failed, and it sends no hook list request and no POST and writes nothing,
\* also when repositories of earlier pages were already collected.
C17_PageFailureAbortsRun ==
    failure = "page" =>
        /\ RequestsOf("hooks") = {}
        /\ RequestsOf("post") = {}
        /\ writes = 0
        /\ ~tmp.exists
        /\ file = fileAtStart
        /\ pc \in {"raised", "done"}
        /\ pc = "done" => (result = "FAILURE" /\ sighups = 0)

\* C17 witness: a run ended Failed on a page failure after it had collected a
\* repository, which has no hook with the callback URL.
C17_Witness ==
    /\ failure = "page"
    /\ pc = "done"
    /\ result = "FAILURE"
    /\ Len(repos) >= 1
    /\ UrlCount(hooks[repos[1].full_name]) = 0

\* C18: when a run writes the cache, and from then on, every repository of
\* the written snapshot had its hooks listed in this run without a failure and
\* has a hook with the callback URL.
C18_WrittenReposHaveHook ==
    (pc \in {"write", "chunks"} \/ writes >= 1) =>
        /\ failure \in {None, "write"}
        /\ \A k \in DOMAIN repos :
            /\ repos[k].full_name \in RequestsOf("hooks")
            /\ UrlCount(hooks[repos[k].full_name]) >= 1
        /\ writes >= 1 =>
            /\ failure = None
            /\ RecordsOf(file) = repos

\* C18 witness: the written snapshot holds every repository; each had no hook
\* with the callback URL when the run began and got one by a POST.
C18_Witness ==
    /\ writes = 1
    /\ Len(RecordsOf(file)) = NumRepos
    /\ RequestsOf("post") = Repos
    /\ \A r \in Repos : UrlCount(hooks[r]) = 1

\* C19: the reload signal is sent only after the write of the same run is
\* complete: once it is sent the cache file holds the snapshot of this run, no
\* temporary file is left, and every load_projects that returns from then on
\* returns the records of that snapshot, not those of the previous one.
C19_SighupAfterWrite ==
    [][sighups' >= 1 =>
        /\ writes' = 1
        /\ tmp' = NoFile
        /\ file' = FileOf(Dumps(repos'))
        /\ (sighups >= 1 /\ loaded' # loaded) =>
            /\ observed' = FileOf(Dumps(repos))
            /\ loaded' = Loaded("ok", LoadProjects(Dumps(repos), topic))]_vars

\* C19 witness: the signal was sent by a run that replaced a previous snapshot
\* by a different one, and load_projects has returned the records of the new
\* one.
C19_Witness ==
    /\ sighups = 1
    /\ fileAtStart.exists
    /\ file # fileAtStart
    /\ rpc = "idle"
    /\ observed = file
    /\ loaded = Loaded("ok", LoadProjects(file.doc, topic))
    /\ loaded.projects # LoadProjects(fileAtStart.doc, topic)

\* the POST requests of this run for repository r
PostCount(r) ==
    Cardinality({k \in DOMAIN requests : requests[k] = Request("post", r)})

\* the POST requests of this run that answered
AnsweredPosts ==
    {requests[k][2] : k \in {j \in DOMAIN requests :
        /\ requests[j][1] = "post"
        /\ ~(j = Len(requests) /\ failure = "post")}}

\* C20: the step only adds hooks.  A run sends at most one POST per
\* repository; every step leaves the hooks a repository has as they are and at
\* most appends the new hook; the hooks a run created are still there when it
\* ends Failed, with the cache file as the run found it.
C20_OnlyAddsHooks ==
    /\ [](\A r \in Repos : PostCount(r) <= 1)
    /\ [][\A r \in Repos :
            \/ hooks'[r] = hooks[r]
            \/ /\ hooks'[r] = Append(hooks[r], NewHook)
               /\ requests' = Append(requests, Request("post", r))]_vars
    /\ [](\A r \in AnsweredPosts :
            /\ hooks[r][Len(hooks[r])] = NewHook
            /\ result = "FAILURE" => file = fileAtStart)

\* C20 witness: a run ended Failed on the POST of its second repository; the
\* hook it created for the first, next to a foreign hook that is as it was, is
\* on the remote, and the cache file is the one the run found.
C20_Witness ==
    /\ pc = "done"
    /\ result = "FAILURE"
    /\ failure = "post"
    /\ file = fileAtStart
    /\ \E r \in AnsweredPosts : hooks[r] = <<Hook(ForeignUrl, StaleSecret), NewHook>>

====
